---- MODULE Spec2Model ----
(***************************************************************************)
(* A model of the resque-backend application: the login-attempt limiter    *)
(* of AuthenticationService, the /users endpoints (register, login, me),   *)
(* UserRepository, the JWT check of security.get_current_user, the         *)
(* soft-delete repository with the BaseService on top of it, the project   *)
(* service and its endpoints, EndpointAction.execute with the permission   *)
(* classes, the repository and service factories, the route registration   *)
(* and handlers of BaseCrudEndpoint, the limiter and create_project under  *)
(* concurrent calls, and the user cache of EndpointAction.get_current_user.*)
(*                                                                         *)
(* Time is counted in whole minutes.  The database is one committed store  *)
(* (every handler commits before it returns) and is taken to be available: *)
(* the SQLAlchemyError branches of the handlers are not taken.             *)
(***************************************************************************)
EXTENDS Integers, Sequences, FiniteSets, TLC

\* ------------------------------------------------------------------ bounds
MaxTime == 6          \* the current_time arguments run over 0..MaxTime
MaxRows == 6          \* rows the login_attempts table may hold in the limiter model
MaxLoginTime == 16    \* the last instant of the clock of the /users/login model
MaxUsers == 3         \* users the users table may hold
MaxItems == 2         \* instances the soft-delete repository may hold
MaxRepoTime == 2      \* the clock of the repository model runs over 0..MaxRepoTime
MaxTokenTime == 2     \* the clock and the exp claims of the token model run over
                      \* 0..MaxTokenTime

Times == 0..MaxTime

\* ------------------------------------------------------- program constants
max_attempts == 5                 \* AuthenticationService.max_attempts
cooldown_period == 5              \* AuthenticationService.cooldown_period, minutes
brute_force_window == 15          \* check_brute_force: timedelta(minutes=15)
brute_force_limit == 5            \* check_brute_force: len(attempts) >= 5
ACCESS_TOKEN_EXPIRE_MINUTES == 60 \* settings.ACCESS_TOKEN_EXPIRE_MINUTES

user_cache_ttl == 15              \* TTLCache(maxsize=1000, ttl=900): 900 s

SECRET_KEY == "your-secret-key"    \* settings.SECRET_KEY

\* ----------------------------------------------------------------- emails
\* An email is the sequence of the characters of its local part (the domain
\* is the same for all of them).  str.lower() maps each character.
Chars == {"a", "A", "b", "B"}

LowerChar(c) == CASE c = "A" -> "a" [] c = "B" -> "b" [] OTHER -> c

Lower(s) == [i \in DOMAIN s |-> LowerChar(s[i])]

\* the emails the limiter and login models draw their inputs from
LoginEmails == {<<"a">>, <<"b">>}
Passwords == {"pw1", "pw2"}

\* ------------------------------------------------------------- passwords
\* bcrypt: the hash of a password verifies against that password only.
get_password_hash(password) == <<"bcrypt", password>>

verify_password(plain_password, hashed_password) ==
    hashed_password = get_password_hash(plain_password)

VARIABLES
    now,         \* the wall clock (datetime.utcnow / datetime.now / func.now)
    users,       \* table users: a set of rows [id, email, name, hashed_password]
    nextUserId,  \* the next autoincrement id of table users
    attempts,    \* table login_attempts: attempts[email][time] = number of rows
    streak,      \* history: per email, the calls made at one current_time since
                 \* a call found every older row of the email expired
    items,       \* table of the soft-delete model: a set of rows
    nextItemId,  \* the next autoincrement id of that table
    projects,    \* table projects: a set of rows [id, founder_id, title, description]
    nextProjectId,        \* the next autoincrement id of table projects
    repository_instances, \* RepositoryFactory.repository_instances: the dict's
                          \* values, each an instance [id, cls, db] under key cls
    service_instances,    \* ServiceFactory.service_instances: the dict's values,
                          \* each an instance [id, cls, repository] under key cls
    nextInstanceId,       \* the identity the next constructed object gets
    requested,   \* history: the repository classes get_repository was called with
    endpoint_action,      \* the EndpointAction object: its detail and permissions
    routes,      \* per APIRouter, the routes added to it, in order
    procs,       \* the concurrent calls in flight: per call its position and locals
    closed,      \* the database sessions that get_async_db has closed
    user_cache,  \* endpoint_action.user_cache: the entries [email, user, at]
    last         \* the last step: the operation, its arguments and its outcome

projectVars == <<projects, nextProjectId>>

factoryVars == <<repository_instances, service_instances, nextInstanceId, requested>>

appVars == <<routes, procs, closed, user_cache>>

\* the routers of the application and of the tests
Routers == {"api_v1_router", "router"}

\* the concurrent calls; a call that has not begun is idle
MaxProcs == 2
Procs == 1..MaxProcs
IdleProc == [pc |-> "idle", arg |-> 0, key |-> "", seen |-> 0, out |-> ""]

vars == <<now, users, nextUserId, attempts, streak, items, nextItemId,
          projects, nextProjectId, repository_instances, service_instances,
          nextInstanceId, requested, endpoint_action, routes, procs, closed,
          user_cache, last>>

\* ----------------------------------------------------- table login_attempts
RECURSIVE SumOver(_, _)
SumOver(f, S) ==
    IF S = {} THEN 0
    ELSE LET x == CHOOSE y \in S : TRUE IN f[x] + SumOver(f, S \ {x})

\* the instants of the /users/login model: the clock steps over the instants
\* strictly between 1 and the brute-force window
LoginTimes == {t \in 0..MaxLoginTime : t <= 1 \/ t >= brute_force_window}

\* every attempt_time a row may carry
AllTimes == Times \cup LoginTimes

NoAttempts == [e \in LoginEmails |-> [t \in AllTimes |-> 0]]

\* the number of rows of email
RowCount(rows, email) == SumOver(rows[email], AllTimes)

TotalRows(rows) == SumOver([e \in LoginEmails |-> RowCount(rows, e)], LoginEmails)

\* select count(id) where email = :email and attempt_time > :bound
CountAfter(rows, email, bound) ==
    SumOver(rows[email], {t \in AllTimes : t > bound})

DeleteBefore(rows, email, bound) ==
    [rows EXCEPT ![email] = [t \in AllTimes |-> IF t < bound THEN 0 ELSE @[t]]]

\* delete where email = :email and attempt_time <= :bound
DeleteUpTo(rows, email, bound) ==
    [rows EXCEPT ![email] = [t \in AllTimes |-> IF t <= bound THEN 0 ELSE @[t]]]

\* add LoginAttempt(email, attempt_time)
AddAttempt(rows, email, t) ==
    [rows EXCEPT ![email][t] = @ + 1]

DeleteAll(rows, email) == NoAttempts

\* delete where email = :email
DeleteAllOf(rows, email) ==
    [rows EXCEPT ![email] = [t \in AllTimes |-> 0]]

\* select User where email = :email: the set of matching rows (email is
\* unique, so at most one; the empty set is scalar_one_or_none() = None)
UserByEmail(email) == {u \in users : u.email = email}

\* ------------------------------------------------------- UserRepository
Names == {"John"}

\* UserRepository.check_user_existence: lowers the argument, compares it with
\* the stored emails as they are
check_user_existence(email) == UserByEmail(Lower(email)) # {}

\* a stored user's email equals the email when letter case is ignored
CaseClash(email) == \E u \in users : Lower(u.email) = Lower(email)

\* UserRepository.create_user
create_user(email, password, name) ==
    /\ Cardinality(users) < MaxUsers
    /\ IF check_user_existence(email)
       THEN \* raise DuplicateEmailError -> rollback -> DuplicateEmailError
            /\ last' = [op |-> "create_user", email |-> email, clash |-> CaseClash(email),
                        outcome |-> "DuplicateEmailError",
                        message |-> "Email already exists"]
            /\ UNCHANGED <<users, nextUserId>>
       ELSE IF UserByEmail(email) # {}
       THEN \* commit violates unique(email): IntegrityError -> rollback
            /\ last' = [op |-> "create_user", email |-> email, clash |-> CaseClash(email),
                        outcome |-> "DatabaseError",
                        message |-> "An error occurred while accessing the database"]
            /\ UNCHANGED <<users, nextUserId>>
       ELSE /\ users' = users \cup {[id |-> nextUserId, email |-> email, name |-> name,
                                     hashed_password |-> get_password_hash(password)]}
            /\ nextUserId' = nextUserId + 1
            /\ last' = [op |-> "create_user", email |-> email, clash |-> CaseClash(email),
                        outcome |-> "created",
                        message |-> ""]
    /\ UNCHANGED <<now, attempts, streak, items, nextItemId,
                   projectVars, factoryVars, endpoint_action, appVars>>

\* ------------------------------------------------- AuthenticationService
\* check_login_attempts, the rows after its first commit: the rows of the
\* email at or before current_time - cooldown_period are deleted
PurgeExpired(rows, email, current_time) ==
    DeleteUpTo(rows, email, current_time - cooldown_period)

\* check_login_attempts, attempt_count: the rows of the email later than
\* current_time - cooldown_period
attempt_count_unfiltered(rows, email, current_time) == RowCount(rows, email)

attempt_count(rows, email, current_time) ==
    CountAfter(PurgeExpired(rows, email, current_time), email,
               current_time - cooldown_period)

RejectsAbove(rows, email, current_time) ==
    attempt_count(rows, email, current_time) > max_attempts

\* check_login_attempts returns False
Rejects(rows, email, current_time) ==
    attempt_count(rows, email, current_time) >= max_attempts

check_login_attempts_always(rows, email, current_time) ==
    AddAttempt(PurgeExpired(rows, email, current_time), email, current_time)

\* check_login_attempts: the table it leaves
check_login_attempts(rows, email, current_time) ==
    IF Rejects(rows, email, current_time)
    THEN PurgeExpired(rows, email, current_time)
    ELSE AddAttempt(PurgeExpired(rows, email, current_time), email, current_time)

\* the rows of the email whose attempt time lies in (current_time - cooldown, current_time]
RecentRows(rows, email, current_time) ==
    SumOver(rows[email], {t \in AllTimes : t > current_time - cooldown_period
                                           /\ t <= current_time})

\* current_time is more than 5 minutes later than every row of the email
AllExpired(rows, email, current_time) ==
    \A t \in AllTimes : rows[email][t] > 0 => current_time > t + 5

\* the rows of the email are exactly max_attempts rows of one attempt time
FiveAtOnce(rows, email) ==
    \E t \in AllTimes : /\ rows[email][t] = max_attempts
                         /\ RowCount(rows, email) = max_attempts

NoStreak == [at |-> -1, n |-> 0, five |-> FALSE]

StreakAfter(email, current_time) ==
    IF RowCount(attempts, email) > 0 /\ AllExpired(attempts, email, current_time)
    THEN [at |-> current_time, n |-> 1, five |-> FiveAtOnce(attempts, email)]
    ELSE IF streak[email].at = current_time
    THEN [streak[email] EXCEPT !.n = IF @ < max_attempts + 2 THEN @ + 1 ELSE @]
    ELSE NoStreak

\* AuthenticationService.authenticate_user
authenticate_user(email, password, current_time) ==
    LET rejected == Rejects(attempts, email, current_time)
        found    == UserByEmail(email)
        good     == \E u \in found : verify_password(password, u.hashed_password)
    IN  /\ attempts' = check_login_attempts(attempts, email, current_time)
        /\ streak' = [streak EXCEPT ![email] = StreakAfter(email, current_time)]
        /\ last' = [op |-> "authenticate_user", email |-> email,
                    current_time |-> current_time,
                    correct |-> good,
                    checked |-> ~rejected,
                    outcome |-> IF rejected THEN "TooManyAttemptsError"
                                ELSE IF ~good THEN "InvalidCredentialsError"
                                ELSE "user",
                    user |-> IF rejected \/ ~good THEN {} ELSE found]
        /\ UNCHANGED <<now, users, nextUserId, items, nextItemId,
                       projectVars, factoryVars, endpoint_action, appVars>>

\* AuthenticationService.record_failed_attempt: a row at datetime.now
record_failed_attempt(email) ==
    /\ TotalRows(attempts) < MaxRows
    /\ attempts' = AddAttempt(attempts, email, now)
    /\ streak' = [streak EXCEPT ![email] = NoStreak]
    /\ last' = [op |-> "record_failed_attempt", email |-> email]
    /\ UNCHANGED <<now, users, nextUserId, items, nextItemId,
                   projectVars, factoryVars, endpoint_action, appVars>>

\* AuthenticationService.reset_login_attempts
reset_login_attempts(email) ==
    /\ attempts' = DeleteAllOf(attempts, email)
    /\ streak' = [streak EXCEPT ![email] = NoStreak]
    /\ last' = [op |-> "reset_login_attempts", email |-> email]
    /\ UNCHANGED <<now, users, nextUserId, items, nextItemId,
                   projectVars, factoryVars, endpoint_action, appVars>>

Init ==
    /\ now = 0
    /\ users = {}
    /\ nextUserId = 1
    /\ attempts = NoAttempts
    /\ streak = [e \in LoginEmails |-> NoStreak]
    /\ items = {}
    /\ nextItemId = 1
    /\ projects = {}
    /\ nextProjectId = 1
    /\ repository_instances = {}
    /\ service_instances = {}
    /\ nextInstanceId = 1
    /\ requested = {}
    /\ endpoint_action = [detail |-> FALSE, permissions |-> <<"IsAllowAny">>]
    /\ routes = [r \in Routers |-> <<>>]
    /\ procs = [p \in Procs |-> IdleProc]
    /\ closed = {}
    /\ user_cache = {}
    /\ last = [op |-> "init"]

\* the limiter of AuthenticationService for one email, whose user may
\* register at any moment; current_time is an argument of the calls, and the
\* wall clock that record_failed_attempt reads stands still
AuthEmails == {<<"a">>}

AuthRegister == create_user(<<"a">>, "pw1", "John")

AuthCall == \E e \in AuthEmails, p \in Passwords, t \in Times : authenticate_user(e, p, t)

AuthRecord == \E e \in AuthEmails : record_failed_attempt(e)

AuthReset == \E e \in AuthEmails : reset_login_attempts(e)

NextAuth == AuthRegister \/ AuthCall \/ AuthRecord \/ AuthReset

SpecAuth == Init /\ [][NextAuth]_vars

\* ------------------------------------------------------------ JWT (jose)
\* A token carries a payload and the key it was signed with; a string that is
\* no JWT at all is a token that is not wellformed.  An absent claim is the
\* empty set, a present one the singleton of its value.
jwt_encode(payload, key) == [wellformed |-> TRUE, payload |-> payload, sig |-> key]

jwt_decode_unchecked_exp(token, key) ==
    IF ~token.wellformed \/ token.sig # key
    THEN [error |-> "JWTError", payload |-> token.payload]
    ELSE [error |-> "", payload |-> token.payload]

\* jwt.decode: the signature first, then the exp claim against the clock
jwt_decode(token, key) ==
    IF ~token.wellformed \/ token.sig # key
    THEN [error |-> "JWTError", payload |-> token.payload]
    ELSE IF \E exp \in token.payload.exp : exp < now
    THEN [error |-> "ExpiredSignatureError", payload |-> token.payload]
    ELSE [error |-> "", payload |-> token.payload]

\* security.create_access_token: expires_delta in minutes, 0 for None
create_access_token(data, expires_delta) ==
    LET expire == IF expires_delta # 0 THEN now + expires_delta ELSE now + 15
    IN  jwt_encode([data EXCEPT !.exp = {expire}], SECRET_KEY)

credentials_exception ==
    [status |-> 401, detail |-> "Could not validate credentials"]

UserResponse(u) == [id |-> u.id, email |-> u.email, name |-> u.name]

\* security.get_current_user (GET /users/me)
get_current_user(token) ==
    LET decoded == jwt_decode(token, SECRET_KEY)
        found   == UNION {UserByEmail(email) : email \in decoded.payload.sub}
        failure == IF decoded.error = "ExpiredSignatureError"
                   THEN [status |-> 401, detail |-> "Token has expired"]
                   ELSE IF decoded.error = "JWTError" THEN credentials_exception
                   ELSE IF decoded.payload.sub = {} THEN credentials_exception
                   ELSE IF found = {} THEN credentials_exception
                   ELSE [status |-> 200, detail |-> ""]
    IN  /\ last' = [op |-> "get_current_user", token |-> token, at |-> now,
                    status |-> failure.status, detail |-> failure.detail,
                    user |-> IF failure.status = 200
                             THEN {UserResponse(u) : u \in found} ELSE {}]
        /\ UNCHANGED <<now, users, nextUserId, attempts, streak, items, nextItemId,
                       projectVars, factoryVars, endpoint_action, appVars>>

\* --------------------------------------------------- POST /users/login
\* the methods UserRepository defines
UserRepositoryMethods ==
    {"create_user", "check_user_existence", "get_user_by_email",
     "get_user_by_id", "update_user", "delete_user"}

\* check_brute_force: the attempts of the email in the last 15 minutes
brute_force_count(rows, email) == CountAfter(rows, email, now - brute_force_window)

\* check_brute_force raises HTTPException(429)
brute_force_raises(rows, email) == brute_force_count(rows, email) >= brute_force_limit

\* check_brute_force, when it does not raise: old rows deleted, this attempt
\* recorded (attempt_time is the server default, func.now())
check_brute_force(rows, email) ==
    AddAttempt(DeleteUpTo(rows, email, now - brute_force_window), email, now)

clear_expired_login_attempts(rows, email) ==
    DeleteUpTo(rows, email, now - brute_force_window)

\* security.clear_login_attempts
clear_login_attempts(rows, email) == DeleteAllOf(rows, email)

\* login_user, its except clauses: the response to an exception raised in
\* the body
login_except(exc) ==
    CASE exc = "TooManyAttemptsError" ->
            [status |-> 429,
             detail |-> "Too many login attempts. Please try again later."]
      [] exc = "InvalidCredentialsError" ->
            [status |-> 401, detail |-> "Incorrect email or password"]
      [] OTHER ->
            [status |-> 500, detail |-> "An unexpected error occurred"]

NoToken == [wellformed |-> FALSE, payload |-> [sub |-> {}, exp |-> {}], sig |-> ""]

\* login_user (POST /users/login)
login_user(username, password) ==
    LET found == UserByEmail(username)
        good  == \E u \in found : verify_password(password, u.hashed_password)
        rows1 == check_brute_force(attempts, username)
        \* the exception the body ends with, "" when it returns
        exc   == IF brute_force_raises(attempts, username) THEN "HTTPException"
                 ELSE IF good THEN ""
                 ELSE IF "record_failed_attempt" \in UserRepositoryMethods
                      THEN "InvalidCredentialsError"
                      ELSE "AttributeError"
        response == IF exc # "" THEN login_except(exc)
                    ELSE [status |-> 200, detail |-> ""]
    IN  /\ attempts' = IF brute_force_raises(attempts, username) THEN attempts
                       ELSE IF good THEN clear_login_attempts(rows1, username)
                       ELSE IF "record_failed_attempt" \in UserRepositoryMethods
                            THEN AddAttempt(rows1, username, now)
                            ELSE rows1
        /\ streak' = [streak EXCEPT ![username] = NoStreak]
        /\ last' = [op |-> "login_user", email |-> username, correct |-> good,
                    recent |-> brute_force_count(attempts, username),
                    status |-> response.status, detail |-> response.detail,
                    token_type |-> IF exc = "" THEN "bearer" ELSE "",
                    access_token |->
                        IF exc = ""
                        THEN create_access_token(
                                 [sub |-> {u.email : u \in found}, exp |-> {}],
                                 ACCESS_TOKEN_EXPIRE_MINUTES)
                        ELSE NoToken]
        /\ UNCHANGED <<now, users, nextUserId, items, nextItemId,
                       projectVars, factoryVars, endpoint_action, appVars>>

\* the /users endpoints under a clock that visits the instants of LoginTimes
LoginRegister == create_user(<<"a">>, "pw1", "John")

LoginCall == \E e \in LoginEmails, p \in Passwords : login_user(e, p)

TickLogin ==
    /\ \E t \in LoginTimes : t > now
    /\ now' = CHOOSE t \in LoginTimes : t > now /\ \A t2 \in LoginTimes : t2 > now => t <= t2
    /\ last' = [op |-> "tick"]
    /\ UNCHANGED <<users, nextUserId, attempts, streak, items, nextItemId,
                   projectVars, factoryVars, endpoint_action, appVars>>

NextLogin == LoginRegister \/ LoginCall \/ TickLogin

SpecLogin == Init /\ [][NextLogin]_vars

\* GET /users/me with any token, signed by the application or not
TokenEmails == {<<"a">>, <<"b">>}

Tokens ==
    [wellformed : BOOLEAN,
     payload : [sub : {{}} \cup {{e} : e \in TokenEmails},
                exp : {{}} \cup {{t} : t \in 0..MaxTokenTime}],
     sig : {SECRET_KEY, "another-key"}]

TokenRegister == \E e \in TokenEmails : create_user(e, "pw1", "John")

TokenMe == \E token \in Tokens : get_current_user(token)

TickToken ==
    /\ now < MaxTokenTime
    /\ now' = now + 1
    /\ last' = [op |-> "tick"]
    /\ UNCHANGED <<users, nextUserId, attempts, streak, items, nextItemId,
                   projectVars, factoryVars, endpoint_action, appVars>>

NextToken == TokenRegister \/ TokenMe \/ TickToken

SpecToken == Init /\ [][NextToken]_vars

\* registration through UserRepository.create_user with emails that differ
\* in letter case
UserEmails ==
    {<<c>> : c \in Chars} \cup {<<"a", "b">>, <<"a", "B">>, <<"A", "b">>}

UsersCreate == \E e \in UserEmails, p \in {"pw1"}, n \in Names : create_user(e, p, n)

NextUsers == UsersCreate

SpecUsers == Init /\ [][NextUsers]_vars

\* --------------------------------------------- SoftDeleteBaseRepository
\* A row of the model table is [id, name, is_deleted, deleted_at]; deleted_at
\* is the empty set for None and {t} for the time t.
ItemNames == {"n1", "n2"}
ItemIds == 1..(MaxItems + 1)

soft_get_any(tbl, id) == {x \in tbl : x.id = id}

\* SoftDeleteBaseRepository.get: select where id = :id and is_deleted = False
soft_get(tbl, id) == {x \in tbl : x.id = id /\ x.is_deleted = FALSE}

\* the rows of a set in the order of their ids
RECURSIVE ById(_)
ById(S) ==
    IF S = {} THEN <<>>
    ELSE LET x == CHOOSE y \in S : \A z \in S : y.id <= z.id
         IN  <<x>> \o ById(S \ {x})

\* SoftDeleteBaseRepository.list: select where is_deleted = False
soft_list(tbl) == ById({x \in tbl : x.is_deleted = FALSE})

\* SoftDeleteBaseRepository.list_all: select
list_all(tbl) == ById(tbl)

delete_matches_any(tbl, id) == {x \in tbl : x.id = id}

\* SoftDeleteBaseRepository.delete, the rows its UPDATE matches:
\* where id = :id and is_deleted = False
delete_matches(tbl, id) == {x \in tbl : x.id = id /\ x.is_deleted = FALSE}

restore_matches_any(tbl, id) == {x \in tbl : x.id = id}

\* SoftDeleteBaseRepository.restore, the rows its UPDATE matches:
\* where id = :id and is_deleted = True
restore_matches(tbl, id) == {x \in tbl : x.id = id /\ x.is_deleted = TRUE}

\* values(is_deleted=True, deleted_at=datetime.utcnow())
MarkDeleted(x) == [x EXCEPT !.is_deleted = TRUE, !.deleted_at = {now}]

MarkRestoredFlagOnly(x) == [x EXCEPT !.is_deleted = FALSE]

\* values(is_deleted=False, deleted_at=None)
MarkRestored(x) == [x EXCEPT !.is_deleted = FALSE, !.deleted_at = {}]

\* BaseRepository.create
repo_create(name) ==
    /\ nextItemId <= MaxItems
    /\ LET x == [id |-> nextItemId, name |-> name, is_deleted |-> FALSE,
                 deleted_at |-> {}]
       IN  /\ items' = items \cup {x}
           /\ last' = [op |-> "create", id |-> x.id, result |-> {x}, status |-> 200]
    /\ nextItemId' = nextItemId + 1
    /\ UNCHANGED <<now, users, nextUserId, attempts, streak,
                   projectVars, factoryVars, endpoint_action, appVars>>

\* the table after SoftDeleteBaseRepository.delete(id)
after_delete(tbl, id) ==
    (tbl \ delete_matches(tbl, id)) \cup {MarkDeleted(x) : x \in delete_matches(tbl, id)}

\* SoftDeleteBaseRepository.delete: returns the updated row or None
repo_delete(id) ==
    /\ items' = after_delete(items, id)
    /\ last' = [op |-> "delete", id |-> id,
                result |-> {MarkDeleted(x) : x \in delete_matches(items, id)},
                status |-> 200]
    /\ UNCHANGED <<now, users, nextUserId, attempts, streak, nextItemId,
                   projectVars, factoryVars, endpoint_action, appVars>>

\* SoftDeleteBaseRepository.restore: returns the updated row or None
repo_restore(id) ==
    /\ items' = (items \ restore_matches(items, id))
                 \cup {MarkRestored(x) : x \in restore_matches(items, id)}
    /\ last' = [op |-> "restore", id |-> id,
                result |-> {MarkRestored(x) : x \in restore_matches(items, id)},
                status |-> 200]
    /\ UNCHANGED <<now, users, nextUserId, attempts, streak, nextItemId,
                   projectVars, factoryVars, endpoint_action, appVars>>

\* SoftDeleteBaseRepository.hard_delete = BaseRepository.delete: obj is
\* self.get(id), which is the get of SoftDeleteBaseRepository
repo_hard_delete(id) ==
    /\ items' = items \ soft_get(items, id)
    /\ last' = [op |-> "hard_delete", id |-> id, result |-> soft_get(items, id),
                status |-> 200]
    /\ UNCHANGED <<now, users, nextUserId, attempts, streak, nextItemId,
                   projectVars, factoryVars, endpoint_action, appVars>>

\* BaseService.delete: repository.delete, HTTPException(404) on None
service_delete(id) ==
    /\ items' = after_delete(items, id)
    /\ last' = [op |-> "service_delete", id |-> id,
                result |-> {MarkDeleted(x) : x \in delete_matches(items, id)},
                status |-> IF delete_matches(items, id) = {} THEN 404 ELSE 200]
    /\ UNCHANGED <<now, users, nextUserId, attempts, streak, nextItemId,
                   projectVars, factoryVars, endpoint_action, appVars>>

\* ------------------------------------------------------------ BaseService
Min(a, b) == IF a <= b THEN a ELSE b

Max(a, b) == IF a >= b THEN a ELSE b

\* the skip and limit arguments of BaseService.list
MaxSkip == 3
MaxLimit == 3

SliceInclusive(seq, a, b) ==
    [i \in 1..(Min(b + 1, Len(seq)) - Min(a, Len(seq))) |-> seq[Min(a, Len(seq)) + i]]

\* Python's seq[a:b] for 0 <= a <= b: the elements at the 0-based positions
\* a .. b-1 that exist
Slice(seq, a, b) ==
    [i \in 1..(Min(b, Len(seq)) - Min(a, Len(seq))) |-> seq[Min(a, Len(seq)) + i]]

\* response_schema.model_validate(obj) with from_attributes: each field of
\* the response schema is read from the attribute of the same name
model_validate(obj) ==
    [id |-> obj.id, name |-> obj.name, is_deleted |-> obj.is_deleted,
     deleted_at |-> obj.deleted_at]

\* PaginatedResponse(items=..., total=len(db_objs), page=skip // limit + 1,
\* size=limit)
PaginatedResponse(db_objs, skip, limit) ==
    [items |-> [i \in DOMAIN Slice(db_objs, skip, skip + limit) |->
                   model_validate(Slice(db_objs, skip, skip + limit)[i])],
     total |-> Len(db_objs),
     page  |-> (skip \div limit) + 1,
     size  |-> limit]

\* BaseService.list
service_list(skip, limit) ==
    /\ last' = [op |-> "service_list", skip |-> skip, limit |-> limit,
                response |-> PaginatedResponse(soft_list(items), skip, limit),
                status |-> 200]
    /\ UNCHANGED <<now, users, nextUserId, attempts, streak, items, nextItemId,
                   projectVars, factoryVars, endpoint_action, appVars>>

not_found_never(db_obj) == FALSE

\* BaseService.get / update: `if not db_obj`
not_found(db_obj) == db_obj = {}

\* BaseService.get: repository.get, HTTPException(404) on None
service_get(id) ==
    /\ last' = IF not_found(soft_get(items, id))
               THEN [op |-> "service_get", id |-> id, result |-> {},
                     status |-> 404, detail |-> "Object not found"]
               ELSE [op |-> "service_get", id |-> id,
                     result |-> {model_validate(x) : x \in soft_get(items, id)},
                     status |-> 200, detail |-> ""]
    /\ UNCHANGED <<now, users, nextUserId, attempts, streak, items, nextItemId,
                   projectVars, factoryVars, endpoint_action, appVars>>

\* BaseRepository.update(db_obj, obj_in) called with db_obj = id, an int:
\* setattr(id, field, value) raises AttributeError at the first field; with
\* no field, db_session.add(id) raises UnmappedInstanceError, a
\* SQLAlchemyError.  Nothing is committed either way.
base_update_raises(update_data) ==
    IF update_data = {} THEN "UnmappedInstanceError" ELSE "AttributeError"

\* BaseService.update: obj_in is the set of the names set in the update
\* schema (empty: no field set).  UnmappedInstanceError is turned into
\* HTTPException(500) by `except SQLAlchemyError`; AttributeError leaves the
\* service as it is and the application answers it 500.
service_update(id, obj_in) ==
    /\ last' = IF not_found(soft_get(items, id))
               THEN [op |-> "service_update", id |-> id, obj_in |-> obj_in,
                     result |-> {}, raised |-> "HTTPException", status |-> 404,
                     detail |-> "Object not found"]
               ELSE IF base_update_raises(obj_in) = "UnmappedInstanceError"
               THEN [op |-> "service_update", id |-> id, obj_in |-> obj_in,
                     result |-> {}, raised |-> "HTTPException", status |-> 500,
                     detail |-> "Database error"]
               ELSE [op |-> "service_update", id |-> id, obj_in |-> obj_in,
                     result |-> {}, raised |-> base_update_raises(obj_in),
                     status |-> 500, detail |-> "Internal Server Error"]
    /\ UNCHANGED <<now, users, nextUserId, attempts, streak, items, nextItemId,
                   projectVars, factoryVars, endpoint_action, appVars>>

RepoCreate == \E name \in ItemNames : repo_create(name)

RepoDelete == \E id \in ItemIds : repo_delete(id)

RepoRestore == \E id \in ItemIds : repo_restore(id)

RepoHardDelete == \E id \in ItemIds : repo_hard_delete(id)

ServiceDelete == \E id \in ItemIds : service_delete(id)

ServiceList == \E skip \in 0..MaxSkip, limit \in 1..MaxLimit : service_list(skip, limit)

ServiceGet == \E id \in ItemIds : service_get(id)

ServiceUpdate ==
    \E id \in ItemIds, obj_in \in {{}} \cup {{n} : n \in ItemNames} :
        service_update(id, obj_in)

TickRepo ==
    /\ now < MaxRepoTime
    /\ now' = now + 1
    /\ last' = [op |-> "tick"]
    /\ UNCHANGED <<users, nextUserId, attempts, streak, items, nextItemId,
                   projectVars, factoryVars, endpoint_action, appVars>>

NextRepo ==
    \/ RepoCreate \/ RepoDelete \/ RepoRestore \/ RepoHardDelete \/ ServiceDelete
    \/ ServiceList \/ ServiceGet \/ ServiceUpdate \/ TickRepo

SpecRepo == Init /\ [][NextRepo]_vars

\* the elements of a sequence
Range(seq) == {seq[i] : i \in DOMAIN seq}

\* --------------------------------------------------------------- projects
\* A project row is [id, founder_id, title, description]; description is {}
\* (None) or {d}.  The table has the unique constraint (title, founder_id).
MaxProjects == 2      \* rows the projects table may ever get

ProjectUserIds == {1, 2}
ProjectIds == 1..(MaxProjects + 1)
ProjectTitles == {"alpha", "beta"}
RawTitles == {"alpha", " alpha", "beta", "be!a"}
Descriptions == {{}, {"d1"}}

\* str.strip() on the titles of RawTitles
strip(s) == IF s = " alpha" THEN "alpha" ELSE s

\* ProjectBase.validate_title: title_characters (^[a-zA-Z0-9\s]+$) and
\* check_title_length on value.strip()
title_valid(raw) == strip(raw) \in ProjectTitles

\* ProjectRepository.get: select where id = :project_id
project_get(tbl, project_id) == {q \in tbl : q.id = project_id}

\* ProjectRepository.get_by_title_and_founder
get_by_title_and_founder(tbl, title, founder_id) ==
    {q \in tbl : q.title = title /\ q.founder_id = founder_id}

is_founder_any(project, current_user_id) == TRUE

\* update_project / delete_project: project.founder_id != current_user_id
\* raises 403
is_founder(project, current_user_id) == project.founder_id = current_user_id

\* the outcome of a service call: what it raised ("" when it returned), the
\* status and detail of a raised HTTPException, the returned rows, the
\* writing repository methods it called and the table it leaves
Outcome(raised, status, detail, result, calls, tbl) ==
    [raised |-> raised, status |-> status, detail |-> detail, result |-> result,
     calls |-> calls, projects |-> tbl]

\* ProjectService.create_project
create_project(tbl, next_id, title, description, current_user_id) ==
    IF get_by_title_and_founder(tbl, title, current_user_id) # {}
    THEN Outcome("HTTPException", 400,
                 "A project with this title already exists for this user",
                 {}, {}, tbl)
    ELSE LET q == [id |-> next_id, founder_id |-> current_user_id, title |-> title,
                   description |-> description]
         IN  Outcome("", 200, "", {q}, {"create"}, tbl \cup {q})

\* the row an UPDATE ... SET **update_dict makes of a row; update_dict holds
\* the fields set in the ProjectUpdate: title and description are {} when
\* not set
updated_row(q, update_dict) ==
    [q EXCEPT !.title = IF update_dict.title = {} THEN q.title
                        ELSE CHOOSE t \in update_dict.title : TRUE,
              !.description = IF update_dict.description = {} THEN q.description
                              ELSE update_dict.description]

\* ProjectRepository.update: the UPDATE fails with IntegrityError (and is
\* rolled back) when it would give two rows of a founder the same title
update_violates_unique(tbl, q, update_dict) ==
    \E o \in tbl : /\ o.id # q.id
                   /\ o.founder_id = q.founder_id
                   /\ o.title = updated_row(q, update_dict).title

\* ProjectService.update_project
update_project(tbl, project_id, update_dict, current_user_id) ==
    IF project_get(tbl, project_id) = {}
    THEN Outcome("HTTPException", 404, "Project not found", {}, {}, tbl)
    ELSE LET q == CHOOSE x \in project_get(tbl, project_id) : TRUE
         IN  IF ~is_founder(q, current_user_id)
             THEN Outcome("HTTPException", 403,
                          "Not authorized to update this project", {}, {}, tbl)
             ELSE IF update_dict.title = {} /\ update_dict.description = {}
             THEN Outcome("HTTPException", 400, "No update data provided", {}, {}, tbl)
             ELSE IF update_violates_unique(tbl, q, update_dict)
             THEN Outcome("IntegrityError", 500, "", {}, {"update"}, tbl)
             ELSE Outcome("", 200, "", {updated_row(q, update_dict)}, {"update"},
                          (tbl \ {q}) \cup {updated_row(q, update_dict)})

\* ProjectService.delete_project
delete_project(tbl, project_id, current_user_id) ==
    IF project_get(tbl, project_id) = {}
    THEN Outcome("HTTPException", 404, "Project not found", {}, {}, tbl)
    ELSE LET q == CHOOSE x \in project_get(tbl, project_id) : TRUE
         IN  IF ~is_founder(q, current_user_id)
             THEN Outcome("HTTPException", 403,
                          "Not authorized to delete this project", {}, {}, tbl)
             ELSE Outcome("", 200, "", {}, {"delete"}, tbl \ {q})

\* POST /projects: 422 on a title the schema refuses; everything the service
\* raises, its HTTPException included, is caught by `except Exception`
post_projects(tbl, next_id, raw_title, description, current_user_id) ==
    IF ~title_valid(raw_title)
    THEN Outcome("HTTPException", 422, "validation error", {}, {}, tbl)
    ELSE LET r == create_project(tbl, next_id, strip(raw_title), description,
                                 current_user_id)
         IN  IF r.raised # ""
             THEN Outcome("HTTPException", 500,
                          "An error occurred while creating the project",
                          {}, r.calls, r.projects)
             ELSE [r EXCEPT !.status = 201]

\* PUT and DELETE /projects/{project_id}: an HTTPException of the service is
\* raised again, any other exception becomes HTTPException(500)
reraise(r) ==
    IF r.raised \in {"", "HTTPException"} THEN r
    ELSE [r EXCEPT !.raised = "HTTPException", !.status = 500,
                   !.detail = "An unexpected error occurred"]

put_project(tbl, project_id, update_dict, current_user_id) ==
    reraise(update_project(tbl, project_id, update_dict, current_user_id))

delete_project_endpoint(tbl, project_id, current_user_id) ==
    LET r == reraise(delete_project(tbl, project_id, current_user_id))
    IN  IF r.raised = "" THEN [r EXCEPT !.status = 204] ELSE r

\* a call of the service or of an endpoint: the table it leaves and the
\* record of the call
ProjectStep(op, args, r) ==
    /\ projects' = r.projects
    /\ nextProjectId' = IF "create" \in r.calls THEN nextProjectId + 1
                        ELSE nextProjectId
    /\ last' = [op |-> op, args |-> args, raised |-> r.raised, status |-> r.status,
                detail |-> r.detail, result |-> r.result, calls |-> r.calls]
    /\ UNCHANGED <<now, users, nextUserId, attempts, streak, items, nextItemId,
                   factoryVars, endpoint_action, appVars>>

NoArgs == [project_id |-> 0, title |-> {}, description |-> {}, current_user_id |-> 0]

\* the update schemas with at least one field set (check_at_least_one_field)
UpdateDicts ==
    {u \in [title : {{}} \cup {{t} : t \in ProjectTitles}, description : Descriptions] :
        u.title # {} \/ u.description # {}}

ServiceCreateProject ==
    \E title \in ProjectTitles, description \in Descriptions, uid \in ProjectUserIds :
        /\ nextProjectId <= MaxProjects
        /\ ProjectStep("create_project",
                       [NoArgs EXCEPT !.title = {title}, !.description = description,
                                      !.current_user_id = uid],
                       create_project(projects, nextProjectId, title, description, uid))

PostProjects ==
    \E raw \in RawTitles, description \in Descriptions, uid \in ProjectUserIds :
        /\ nextProjectId <= MaxProjects
        /\ ProjectStep("post_projects",
                       [NoArgs EXCEPT !.title = {raw}, !.description = description,
                                      !.current_user_id = uid],
                       post_projects(projects, nextProjectId, raw, description, uid))

ServiceUpdateProject ==
    \E id \in ProjectIds, u \in UpdateDicts, uid \in ProjectUserIds :
        ProjectStep("update_project",
                    [NoArgs EXCEPT !.project_id = id, !.title = u.title,
                                   !.description = u.description,
                                   !.current_user_id = uid],
                    update_project(projects, id, u, uid))

PutProject ==
    \E id \in ProjectIds, u \in UpdateDicts, uid \in ProjectUserIds :
        ProjectStep("put_project",
                    [NoArgs EXCEPT !.project_id = id, !.title = u.title,
                                   !.description = u.description,
                                   !.current_user_id = uid],
                    put_project(projects, id, u, uid))

ServiceDeleteProject ==
    \E id \in ProjectIds, uid \in ProjectUserIds :
        ProjectStep("delete_project",
                    [NoArgs EXCEPT !.project_id = id, !.current_user_id = uid],
                    delete_project(projects, id, uid))

DeleteProjectEndpoint ==
    \E id \in ProjectIds, uid \in ProjectUserIds :
        ProjectStep("delete_project_endpoint",
                    [NoArgs EXCEPT !.project_id = id, !.current_user_id = uid],
                    delete_project_endpoint(projects, id, uid))

NextProject ==
    \/ ServiceCreateProject \/ PostProjects \/ ServiceUpdateProject \/ PutProject
    \/ ServiceDeleteProject \/ DeleteProjectEndpoint

SpecProject == Init /\ [][NextProject]_vars

\* --------------------------------------------------------- EndpointAction
\* The details of the HTTPExceptions of execute are Korean sentences in the
\* source; they are written here by their English meaning.
NoUserMessage == "user information not found"        \* ValueError, line 116
PermissionDeniedDetail == "no permission"            \* line 124
PageNotFoundDetail == "page not found"               \* line 127
InternalErrorDetail == "internal server error"       \* line 134

MaxPermissions == 2   \* permission classes an action may list

\* the permission classes of permissions.py, and DenyAll: a subclass of
\* BasePermission whose two checks return False
PermissionClasses == {"IsAllowAny", "IsAuthenticated", "IsAllowOwner", "DenyAll"}

RECURSIVE SeqsUpTo(_, _)
SeqsUpTo(S, n) ==
    IF n = 0 THEN {<<>>}
    ELSE SeqsUpTo(S, n - 1)
         \cup {Append(q, x) : q \in {r \in SeqsUpTo(S, n - 1) : Len(r) = n - 1}, x \in S}

\* the actions: detail and the permissions list
Actions == [detail : BOOLEAN, permissions : SeqsUpTo(PermissionClasses, MaxPermissions)]

\* kwargs: current_user is {} (absent or None) or {u}; obj is {} or {o},
\* where o.owner is {} (no owner attribute) or {u}
ActionUsers == {"u1", "u2"}
ActionObjects == [owner : {{}} \cup {{u} : u \in ActionUsers}]
Kwargs == [current_user : {{}} \cup {{u} : u \in ActionUsers},
           obj : {{}} \cup {{o} : o \in ActionObjects}]

\* what the handler func does when it is awaited: it returns, or raises
\* one of the exceptions; HTTPException and RuntimeError stand for the
\* exceptions no except clause of execute names
HandlerOutcomes == {"return", "PermissionDenied", "PageNotFound", "ValueError",
                    "HTTPException", "RuntimeError"}
HandlerResult == "Success"
HandlerMessage == "Invalid input"    \* str(e) of the handler's ValueError

\* BasePermission.has_permission of the classes
has_permission(perm, user) ==
    CASE perm = "IsAllowAny" -> TRUE
      [] perm = "IsAuthenticated" -> user # {}
      [] perm = "IsAllowOwner" -> user # {}
      [] OTHER -> FALSE

\* BasePermission.has_object_permission of the classes
has_object_permission(perm, user, obj) ==
    CASE perm = "IsAllowAny" -> TRUE
      [] perm = "IsAuthenticated" -> user # {}
      [] perm = "IsAllowOwner" ->
            IF user = {} \/ obj = {} THEN FALSE
            ELSE \E o \in obj : o.owner = user
      [] OTHER -> FALSE

\* the permissions a loop of PermissionChecker examines: up to and
\* including the first that refuses
examined(perms, refused) ==
    IF refused = {} THEN Len(perms)
    ELSE CHOOSE i \in refused : \A j \in refused : i <= j

\* PermissionChecker.check_permissions: the calls it makes, and whether it
\* raises HTTPException(403, "Permission denied")
check_permissions(perms, user) ==
    LET refused == {i \in DOMAIN perms : ~has_permission(perms[i], user)}
    IN  [calls |-> [i \in 1..examined(perms, refused) |->
                       <<"has_permission", perms[i]>>],
         raises |-> refused # {}]

\* PermissionChecker.check_object_permissions
check_object_permissions(perms, user, obj) ==
    LET refused == {i \in DOMAIN perms : ~has_object_permission(perms[i], user, obj)}
    IN  [calls |-> [i \in 1..examined(perms, refused) |->
                       <<"has_object_permission", perms[i]>>],
         raises |-> refused # {}]

object_check_never(action, kwargs) == FALSE

\* EndpointAction.check_permissions: `if self.detail` and `if obj`
object_check(action, kwargs) == action.detail /\ kwargs.obj # {}

user_missing_never(kwargs) == FALSE

\* EndpointAction.execute: `if not current_user`
user_missing(kwargs) == kwargs.current_user = {}

\* the except clauses of execute: the HTTPException raised for an exception
\* of the try block
except_clause(exc, message) ==
    CASE exc = "PermissionDenied" -> [status |-> 403, detail |-> PermissionDeniedDetail]
      [] exc = "PageNotFound" -> [status |-> 404, detail |-> PageNotFoundDetail]
      [] exc = "ValueError" -> [status |-> 400, detail |-> message]
      [] OTHER -> [status |-> 500, detail |-> InternalErrorDetail]

\* the try block of execute: the calls made in their order, and the
\* exception that ends it ("" when func returned)
try_block(action, kwargs, handler) ==
    LET user_level == check_permissions(action.permissions, kwargs.current_user)
        object_level == check_object_permissions(action.permissions,
                                                 kwargs.current_user, kwargs.obj)
    IN  IF user_missing(kwargs)
        THEN [trace |-> <<>>, exc |-> "ValueError", message |-> NoUserMessage]
        ELSE IF user_level.raises
        THEN [trace |-> user_level.calls, exc |-> "HTTPException",
              message |-> "Permission denied"]
        ELSE IF object_check(action, kwargs) /\ object_level.raises
        THEN [trace |-> user_level.calls \o object_level.calls,
              exc |-> "HTTPException", message |-> "Permission denied"]
        ELSE [trace |-> (IF object_check(action, kwargs)
                         THEN user_level.calls \o object_level.calls
                         ELSE user_level.calls) \o <<(<<"func", "">>)>>,
              exc |-> IF handler = "return" THEN "" ELSE handler,
              message |-> IF handler = "ValueError" THEN HandlerMessage ELSE ""]

\* EndpointAction.execute
execute(action, kwargs, handler) ==
    LET t == try_block(action, kwargs, handler)
    IN  /\ last' = [op |-> "execute", action |-> action, kwargs |-> kwargs,
                    handler |-> handler, trace |-> t.trace,
                    raised |-> IF t.exc = "" THEN "" ELSE "HTTPException",
                    returned |-> IF t.exc = "" THEN {HandlerResult} ELSE {},
                    status |-> IF t.exc = "" THEN 200
                               ELSE except_clause(t.exc, t.message).status,
                    detail |-> IF t.exc = "" THEN ""
                               ELSE except_clause(t.exc, t.message).detail]
        /\ UNCHANGED <<now, users, nextUserId, attempts, streak, items, nextItemId,
                       projectVars, factoryVars, endpoint_action, appVars>>

\* EndpointAction.__init__
EndpointAction(action) ==
    /\ endpoint_action' = action
    /\ last' = [op |-> "EndpointAction", action |-> action]
    /\ UNCHANGED <<now, users, nextUserId, attempts, streak, items, nextItemId,
                   projectVars, factoryVars, appVars>>

NewEndpointAction == \E action \in Actions : EndpointAction(action)

Execute ==
    \E kwargs \in Kwargs, handler \in HandlerOutcomes :
        execute(endpoint_action, kwargs, handler)

NextAction == NewEndpointAction \/ Execute

SpecAction == Init /\ [][NextAction]_vars

\* the positions of a trace that hold a call of the given kind
Positions(trace, kind) == {i \in DOMAIN trace : trace[i][1] = kind}

\* -------------------------------------------------------------- factories
MaxInstances == 6     \* objects the factories may construct

RepositoryClasses == {"DummyRepository", "AnotherDummyRepository", "TestRepository"}
ServiceClasses == {"DummyService", "AnotherDummyService", "ServiceWithoutRepository"}

\* the sessions a caller passes as db; get_service passes none, and db is
\* then the default of the parameter, the Depends(get_async_db) object
Sessions == {"session1", "session2"}
DependsDefault == "Depends(get_async_db)"

\* the `repository` attribute of the service classes ({}: no attribute)
repository_of(service_class) ==
    IF service_class \in {"DummyService", "AnotherDummyService"}
    THEN {"DummyRepository"} ELSE {}

\* dict[key] for a dict held as the set of its values
lookup(instances, cls) == {i \in instances : i.cls = cls}

\* dict[key] = value
store(instances, inst) == (instances \ lookup(instances, inst.cls)) \cup {inst}

cached_never(instances, cls) == FALSE

\* `repository_class not in self.repository_instances`, negated
cached(instances, cls) == lookup(instances, cls) # {}

\* RepositoryFactory.get_repository: the dict it leaves
repository_instances_after(instances, cls, db, id) ==
    IF cached(instances, cls) THEN instances
    ELSE store(instances, [id |-> id, cls |-> cls, db |-> db])

\* RepositoryFactory.get_repository
get_repository(repository_class, db) ==
    /\ nextInstanceId <= MaxInstances
    /\ repository_instances' =
           repository_instances_after(repository_instances, repository_class, db,
                                      nextInstanceId)
    /\ nextInstanceId' = IF cached(repository_instances, repository_class)
                         THEN nextInstanceId ELSE nextInstanceId + 1
    /\ requested' = requested \cup {repository_class}
    /\ last' = [op |-> "get_repository", cls |-> repository_class, db |-> db,
                raised |-> "",
                result |-> lookup(repository_instances', repository_class)]
    /\ UNCHANGED <<now, users, nextUserId, attempts, streak, items, nextItemId,
                   projectVars, service_instances, endpoint_action, appVars>>

\* ServiceFactory.get_service: NotImplementedError for a class without a
\* repository attribute; a new service is built on
\* get_repository(service_class.repository), called without db
get_service(service_class) ==
    IF repository_of(service_class) = {}
    THEN /\ last' = [op |-> "get_service", cls |-> service_class, db |-> "",
                     raised |-> "NotImplementedError", result |-> {}]
         /\ UNCHANGED <<now, users, nextUserId, attempts, streak, items, nextItemId,
                        projectVars, factoryVars, endpoint_action, appVars>>
    ELSE IF lookup(service_instances, service_class) # {}
    THEN /\ last' = [op |-> "get_service", cls |-> service_class, db |-> "",
                     raised |-> "",
                     result |-> lookup(service_instances, service_class)]
         /\ UNCHANGED <<now, users, nextUserId, attempts, streak, items, nextItemId,
                        projectVars, factoryVars, endpoint_action, appVars>>
    ELSE LET repository_class == CHOOSE c \in repository_of(service_class) : TRUE
             made == IF cached(repository_instances, repository_class) THEN 0 ELSE 1
         IN  /\ nextInstanceId + made <= MaxInstances
             /\ repository_instances' =
                    repository_instances_after(repository_instances, repository_class,
                                               DependsDefault, nextInstanceId)
             /\ requested' = requested \cup {repository_class}
             /\ service_instances' =
                    store(service_instances,
                          [id |-> nextInstanceId + made, cls |-> service_class,
                           repository |-> lookup(repository_instances',
                                                 repository_class)])
             /\ nextInstanceId' = nextInstanceId + made + 1
             /\ last' = [op |-> "get_service", cls |-> service_class, db |-> "",
                         raised |-> "",
                         result |-> lookup(service_instances', service_class)]
             /\ UNCHANGED <<now, users, nextUserId, attempts, streak, items,
                            nextItemId, projectVars, endpoint_action, appVars>>

GetRepository ==
    \E repository_class \in RepositoryClasses, db \in Sessions :
        get_repository(repository_class, db)

GetService == \E service_class \in ServiceClasses : get_service(service_class)

NextFactory == GetRepository \/ GetService

SpecFactory == Init /\ [][NextFactory]_vars

\* ------------------------------------------------------- BaseCrudEndpoint
\* Importing app.api.base_crud_endpoint executes the body of the class
\* statement.  There endpoint_action is the classmethod object made at line
\* 65, and line 150 calls it as a decorator factory: a classmethod object is
\* not callable, so the call raises TypeError, the class statement is
\* abandoned and the import fails, each time it is tried.
decorator_object == "classmethod"

\* callable(obj) for the objects a name in a class body may be bound to
callable(obj) == obj = "function"

\* the class statement of BaseCrudEndpoint raises
class_body_raises == ~callable(decorator_object)

\* the actions the decorators of the class body would append to
\* BaseCrudEndpoint.endpoint_actions, in the order of the body
endpoint_actions ==
    IF class_body_raises THEN <<>>
    ELSE << [func |-> "create", methods |-> "POST", detail |-> FALSE],
            [func |-> "get", methods |-> "GET", detail |-> TRUE],
            [func |-> "list", methods |-> "GET", detail |-> FALSE],
            [func |-> "update", methods |-> "PUT", detail |-> TRUE],
            [func |-> "delete", methods |-> "DELETE", detail |-> TRUE] >>

\* the endpoint classes and their prefix attributes
EndpointClasses == {"DocumentEndpoint", "DomainEndpoint", "FeatureEndpoint",
                    "RequirementEndpoint", "TestCrudEndpoint"}

prefix_of(cls) ==
    CASE cls = "DocumentEndpoint" -> "/documents"
      [] cls = "DomainEndpoint" -> "/domains"
      [] cls = "FeatureEndpoint" -> "/features"
      [] cls = "RequirementEndpoint" -> "/requirements"
      [] OTHER -> "/test"

\* register_routes: one route per action, on urls["detail"] = prefix/{id}
\* for a detail action and on urls["list"] = prefix otherwise
register_routes(prefix, actions) ==
    [i \in DOMAIN actions |->
        [path |-> IF actions[i].detail THEN <<prefix, "/{id}">> ELSE <<prefix>>,
         methods |-> actions[i].methods,
         func |-> actions[i].func]]

\* constructing an endpoint class on a router
construct_endpoint(cls, router) ==
    /\ routes' = IF class_body_raises THEN routes
                 ELSE [routes EXCEPT ![router] =
                           @ \o register_routes(prefix_of(cls), endpoint_actions)]
    /\ last' = [op |-> "construct_endpoint", cls |-> cls, router |-> router,
                raised |-> IF class_body_raises THEN "TypeError" ELSE ""]
    /\ UNCHANGED <<now, users, nextUserId, attempts, streak, items, nextItemId,
                   projectVars, factoryVars, endpoint_action, procs, closed,
                   user_cache>>

\* what BaseService answers the handler: 200, or the status of the
\* HTTPException it raises
crud_service_status(handler, tbl, id) ==
    CASE handler = "get" -> IF not_found(soft_get(tbl, id)) THEN 404 ELSE 200
      [] handler = "update" -> IF not_found(soft_get(tbl, id)) THEN 404 ELSE 500
      [] OTHER -> IF delete_matches(tbl, id) = {} THEN 404 ELSE 200

\* the handlers get, update and delete of BaseCrudEndpoint: get raises the
\* service's exception again; update and delete turn every exception into
\* HTTPException(400)
crud_handler_status(handler, service_status) ==
    CASE handler = "get" -> service_status
      [] handler = "update" -> IF service_status = 200 THEN 200 ELSE 400
      [] OTHER -> IF service_status = 200 THEN 204 ELSE 400

\* a GET, PUT or DELETE request for prefix/{id} of an endpoint class: with
\* the import failing there is no application to answer it (status 0)
crud_request(cls, handler, id) ==
    /\ items' = IF ~class_body_raises /\ handler = "delete"
                THEN after_delete(items, id) ELSE items
    /\ last' = [op |-> "crud_request", cls |-> cls, handler |-> handler, id |-> id,
                raised |-> IF class_body_raises THEN "TypeError" ELSE "",
                status |-> IF class_body_raises THEN 0
                           ELSE crud_handler_status(
                                    handler, crud_service_status(handler, items, id))]
    /\ UNCHANGED <<now, users, nextUserId, attempts, streak, nextItemId,
                   projectVars, factoryVars, endpoint_action, appVars>>

ConstructEndpoint ==
    \E cls \in EndpointClasses, router \in Routers : construct_endpoint(cls, router)

CrudRequest ==
    \E cls \in EndpointClasses, handler \in {"get", "update", "delete"}, id \in ItemIds :
        crud_request(cls, handler, id)

NextCrud == ConstructEndpoint \/ CrudRequest \/ RepoCreate \/ RepoDelete

SpecCrud == Init /\ [][NextCrud]_vars

\* ------------------------------------- check_login_attempts, call by call
\* the calls of check_login_attempts one after another, each with the
\* reading of the clock as its current_time, so that the current_time
\* arguments never decrease
check_login_attempts_call(email) ==
    /\ attempts' = check_login_attempts(attempts, email, now)
    /\ last' = [op |-> "check_login_attempts", email |-> email, current_time |-> now,
                counted |-> attempt_count(attempts, email, now),
                result |-> ~Rejects(attempts, email, now)]
    /\ UNCHANGED <<now, users, nextUserId, streak, items, nextItemId,
                   projectVars, factoryVars, endpoint_action, appVars>>

CheckCall == \E e \in AuthEmails : check_login_attempts_call(e)

TickWindow ==
    /\ now < MaxTime
    /\ now' = now + 1
    /\ last' = [op |-> "tick"]
    /\ UNCHANGED <<users, nextUserId, attempts, streak, items, nextItemId,
                   projectVars, factoryVars, endpoint_action, appVars>>

NextWindow == CheckCall \/ TickWindow

SpecWindow == Init /\ [][NextWindow]_vars

\* ------------------------------- check_login_attempts, statement by statement
\* Concurrent calls for one email at one current_time.  Each call runs in its
\* own session; the other calls may run between its awaits: the delete with
\* its commit, the count query, and the insert with its commit.
RaceEmail == <<"a">>

\* await db.execute(delete ...); await db.commit()
limiter_delete(p) ==
    /\ procs[p].pc = "idle"
    /\ attempts' = PurgeExpired(attempts, RaceEmail, now)
    /\ procs' = [procs EXCEPT ![p] = [pc |-> "deleted", arg |-> now, key |-> "", seen |-> 0, out |-> ""]]
    /\ last' = [op |-> "limiter_delete", proc |-> p]
    /\ UNCHANGED <<now, users, nextUserId, streak, items, nextItemId,
                   projectVars, factoryVars, endpoint_action, routes, closed, user_cache>>

\* result = await db.execute(select count ...); attempt_count = result.scalar_one()
limiter_count(p) ==
    /\ procs[p].pc = "deleted"
    /\ procs' = [procs EXCEPT ![p].pc = "counted",
                              ![p].seen = CountAfter(attempts, RaceEmail,
                                                     procs[p].arg - cooldown_period)]
    /\ last' = [op |-> "limiter_count", proc |-> p]
    /\ UNCHANGED <<now, users, nextUserId, attempts, streak, items, nextItemId,
                   projectVars, factoryVars, endpoint_action, routes, closed, user_cache>>

\* if attempt_count >= max_attempts: return False; db.add(...); commit; return True
limiter_insert(p) ==
    /\ procs[p].pc = "counted"
    /\ IF procs[p].seen >= max_attempts
       THEN /\ procs' = [procs EXCEPT ![p].pc = "done", ![p].out = "False"]
            /\ UNCHANGED attempts
       ELSE /\ procs' = [procs EXCEPT ![p].pc = "done", ![p].out = "True"]
            /\ attempts' = AddAttempt(attempts, RaceEmail, procs[p].arg)
    /\ last' = [op |-> "limiter_insert", proc |-> p]
    /\ UNCHANGED <<now, users, nextUserId, streak, items, nextItemId,
                   projectVars, factoryVars, endpoint_action, routes, closed, user_cache>>

\* the caller has the result; the next call of the same client may begin
limiter_return(p) ==
    /\ procs[p].pc = "done"
    /\ procs' = [procs EXCEPT ![p] = IdleProc]
    /\ last' = [op |-> "limiter_return", proc |-> p, result |-> procs[p].out]
    /\ UNCHANGED <<now, users, nextUserId, attempts, streak, items, nextItemId,
                   projectVars, factoryVars, endpoint_action, routes, closed, user_cache>>

LimiterDelete == \E p \in Procs : limiter_delete(p)
LimiterCount == \E p \in Procs : limiter_count(p)
LimiterInsert == \E p \in Procs : limiter_insert(p)
LimiterReturn == \E p \in Procs : limiter_return(p)

NextRace == LimiterDelete \/ LimiterCount \/ LimiterInsert \/ LimiterReturn

SpecRace == Init /\ [][NextRace]_vars

\* ------------------------------------------- the limiter, email by email
\* security.check_brute_force called on its own
check_brute_force_call(email) ==
    /\ attempts' = IF brute_force_raises(attempts, email) THEN attempts
                   ELSE check_brute_force(attempts, email)
    /\ last' = [op |-> "check_brute_force", email |-> email, current_time |-> now,
                counted |-> brute_force_count(attempts, email),
                result |-> ~brute_force_raises(attempts, email)]
    /\ UNCHANGED <<now, users, nextUserId, streak, items, nextItemId,
                   projectVars, factoryVars, endpoint_action, appVars>>

\* security.clear_login_attempts called on its own
clear_login_attempts_call(email) ==
    /\ attempts' = clear_login_attempts(attempts, email)
    /\ last' = [op |-> "clear_login_attempts", email |-> email, current_time |-> now,
                counted |-> 0, result |-> TRUE]
    /\ UNCHANGED <<now, users, nextUserId, streak, items, nextItemId,
                   projectVars, factoryVars, endpoint_action, appVars>>

EmailCheck == \E e \in LoginEmails : check_login_attempts_call(e)

EmailBruteForce == \E e \in LoginEmails : check_brute_force_call(e)

EmailClear == \E e \in LoginEmails : clear_login_attempts_call(e)

NextEmails == EmailCheck \/ EmailBruteForce \/ EmailClear \/ TickLogin

SpecEmails == Init /\ [][NextEmails]_vars

\* ------------------------------- create_project, statement by statement
\* Concurrent ProjectService.create_project calls, each in its own session;
\* the other calls may run between the select of get_by_title_and_founder
\* and the commit of ProjectRepository.create.
unique_violation_never(tbl, title, founder_id) == FALSE

\* UniqueConstraint("title", "founder_id"): the INSERT of a row fails with
\* IntegrityError when a committed row has its title and founder_id
unique_violation(tbl, title, founder_id) ==
    \E q \in tbl : q.title = title /\ q.founder_id = founder_id

\* create_project, `except SQLAlchemyError`: IntegrityError is one
create_project_except(exc) ==
    IF exc = "IntegrityError" THEN "HTTPException 500" ELSE exc

\* existing_project = await self.project_repo.get_by_title_and_founder(...)
create_select(p, title, current_user_id) ==
    /\ procs[p].pc = "idle"
    /\ nextProjectId <= MaxProjects
    /\ procs' = [procs EXCEPT ![p] =
                    [pc |-> "selected", arg |-> current_user_id, key |-> title,
                     seen |-> Cardinality(get_by_title_and_founder(
                                              projects, title, current_user_id)),
                     out |-> ""]]
    /\ last' = [op |-> "create_select", proc |-> p]
    /\ UNCHANGED <<now, users, nextUserId, attempts, streak, items, nextItemId,
                   projectVars, factoryVars, endpoint_action, routes, closed, user_cache>>

\* if existing_project: raise HTTPException(400); else ProjectRepository.create:
\* add, commit, and on SQLAlchemyError rollback and raise
create_commit(p) ==
    /\ procs[p].pc = "selected"
    /\ IF procs[p].seen > 0
       THEN /\ procs' = [procs EXCEPT ![p].pc = "done", ![p].out = "HTTPException 400"]
            /\ last' = [op |-> "create_commit", proc |-> p, rolled_back |-> FALSE]
            /\ UNCHANGED projectVars
       ELSE IF unique_violation(projects, procs[p].key, procs[p].arg)
       THEN /\ procs' = [procs EXCEPT ![p].pc = "done",
                                      ![p].out = create_project_except("IntegrityError")]
            /\ last' = [op |-> "create_commit", proc |-> p, rolled_back |-> TRUE]
            /\ UNCHANGED projectVars
       ELSE /\ projects' = projects \cup
                               {[id |-> nextProjectId, founder_id |-> procs[p].arg,
                                 title |-> procs[p].key, description |-> {}]}
            /\ nextProjectId' = nextProjectId + 1
            /\ procs' = [procs EXCEPT ![p].pc = "done", ![p].out = "Project"]
            /\ last' = [op |-> "create_commit", proc |-> p, rolled_back |-> FALSE]
    /\ UNCHANGED <<now, users, nextUserId, attempts, streak, items, nextItemId,
                   factoryVars, endpoint_action, routes, closed, user_cache>>

\* the caller has the project or the exception
create_return(p) ==
    /\ procs[p].pc = "done"
    /\ procs' = [procs EXCEPT ![p] = IdleProc]
    /\ last' = [op |-> "create_return", proc |-> p, result |-> procs[p].out]
    /\ UNCHANGED <<now, users, nextUserId, attempts, streak, items, nextItemId,
                   projectVars, factoryVars, endpoint_action, routes, closed, user_cache>>

CreateSelect ==
    \E p \in Procs, title \in ProjectTitles, uid \in ProjectUserIds :
        create_select(p, title, uid)

CreateCommit == \E p \in Procs : create_commit(p)

CreateReturn == \E p \in Procs : create_return(p)

NextCreate == CreateSelect \/ CreateCommit \/ CreateReturn

SpecCreate == Init /\ [][NextCreate]_vars

\* ------------------------------------------- get_repository, per request
\* get_async_db, its finally clause at the end of a request: the session the
\* request was given is committed and closed
get_async_db_close(db) ==
    /\ db \notin closed
    /\ closed' = closed \cup {db}
    /\ last' = [op |-> "get_async_db_close", cls |-> "", db |-> db, raised |-> "",
                result |-> {}]
    /\ UNCHANGED <<now, users, nextUserId, attempts, streak, items, nextItemId,
                   projectVars, factoryVars, endpoint_action, routes, procs,
                   user_cache>>

\* a request calls get_repository with the session get_async_db yielded it,
\* which is open
RequestRepository ==
    \E repository_class \in RepositoryClasses, db \in Sessions \ closed :
        get_repository(repository_class, db)

CloseSession == \E db \in Sessions : get_async_db_close(db)

NextRequest == RequestRepository \/ CloseSession

SpecRequest == Init /\ [][NextRequest]_vars

\* ------------------------------------- EndpointAction.get_current_user
\* user_cache.get(email): the cached user, None ({}) when there is no entry
\* or the entry is 900 s old
user_cache_get(cache, email) ==
    {c.user : c \in {d \in cache : d.email = email /\ now < d.at + user_cache_ttl}}

\* user_cache[email] = user: the entry replaces the one of the key, and the
\* expired entries are dropped
user_cache_set(cache, email, user) ==
    {d \in cache : d.email # email /\ now < d.at + user_cache_ttl}
        \cup {[email |-> email, user |-> user, at |-> now]}

\* EndpointAction.get_current_user
endpoint_get_current_user(token) ==
    LET decoded == jwt_decode(token, SECRET_KEY)
        hit     == UNION {user_cache_get(user_cache, email) : email \in decoded.payload.sub}
        found   == IF hit # {} THEN hit
                   ELSE UNION {UserByEmail(email) : email \in decoded.payload.sub}
        failure == IF decoded.error = "ExpiredSignatureError"
                   THEN [status |-> 401, detail |-> "Token has expired"]
                   ELSE IF decoded.error = "JWTError" THEN credentials_exception
                   ELSE IF decoded.payload.sub = {} THEN credentials_exception
                   ELSE IF found = {} THEN credentials_exception
                   ELSE [status |-> 200, detail |-> ""]
    IN  /\ user_cache' = IF failure.status = 200 /\ hit = {}
                         THEN user_cache_set(user_cache,
                                             CHOOSE email \in decoded.payload.sub : TRUE,
                                             CHOOSE u \in found : TRUE)
                         ELSE user_cache
        /\ last' = [op |-> "endpoint_get_current_user", token |-> token, at |-> now,
                    status |-> failure.status, detail |-> failure.detail,
                    cached |-> failure.status = 200 /\ hit # {},
                    user |-> IF failure.status = 200
                             THEN {UserResponse(u) : u \in found} ELSE {}]
        /\ UNCHANGED <<now, users, nextUserId, attempts, streak, items, nextItemId,
                       projectVars, factoryVars, endpoint_action, routes, procs, closed>>

\* UserRepository.update_user with user_data = {"name": name}
update_user(user_id, name) ==
    /\ users' = {IF u.id = user_id THEN [u EXCEPT !.name = name] ELSE u : u \in users}
    /\ last' = [op |-> "update_user", id |-> user_id,
                result |-> {[u EXCEPT !.name = name] : u \in {v \in users : v.id = user_id}}]
    /\ UNCHANGED <<now, nextUserId, attempts, streak, items, nextItemId,
                   projectVars, factoryVars, endpoint_action, appVars>>

\* UserRepository.delete_user
delete_user(user_id) ==
    /\ users' = {u \in users : u.id # user_id}
    /\ last' = [op |-> "delete_user", id |-> user_id,
                result |-> \E u \in users : u.id = user_id]
    /\ UNCHANGED <<now, nextUserId, attempts, streak, items, nextItemId,
                   projectVars, factoryVars, endpoint_action, appVars>>

\* one user of the application, who may register again after a delete, and
\* the tokens made for that user: each a JWT, signed with the key of the
\* application or another, without exp claim or with exp = 0
CacheEmails == {<<"a">>}

CacheTokens ==
    {t \in Tokens : /\ t.wellformed
                     /\ t.payload.exp \subseteq {0}
                     /\ t.payload.sub \subseteq CacheEmails}

CacheNames == {"John", "Jane"}

CacheRegister ==
    /\ nextUserId <= MaxUsers
    /\ \E e \in CacheEmails, n \in CacheNames : create_user(e, "pw1", n)

CacheUpdate == \E id \in 1..MaxUsers, n \in CacheNames : update_user(id, n)

CacheDelete == \E id \in 1..MaxUsers : delete_user(id)

CacheMe == \E token \in CacheTokens : endpoint_get_current_user(token)

NextCache == CacheRegister \/ CacheUpdate \/ CacheDelete \/ CacheMe \/ TickLogin

SpecCache == Init /\ [][NextCache]_vars

\* ---------------------------------------------------------------- claims

\* C1: a call of authenticate_user that finds five or more rows of its email
\* with an attempt time inside the last 5 minutes raises TooManyAttemptsError,
\* whatever the password, and makes no credential check.
C1_LockedOutIsRejected ==
    [][(/\ last'.op = "authenticate_user"
        /\ RecentRows(attempts, last'.email, last'.current_time) >= 5)
       => (/\ last'.outcome = "TooManyAttemptsError"
           /\ ~last'.checked
           /\ last'.user = {})]_vars

\* C1 happens: a call with the correct password of a registered user is
\* rejected while five attempts of the last 5 minutes are stored.
C1_Witness ==
    /\ last.op = "authenticate_user"
    /\ last.correct
    /\ last.outcome = "TooManyAttemptsError"
    /\ RecentRows(attempts, last.email, last.current_time) = 5

\* C2: a call made more than 5 minutes after every stored attempt of its email
\* is admitted, and so are the calls at that same time up to the fifth: each
\* returns the user when the password is correct and raises
\* InvalidCredentialsError when it is not; the sixth raises
\* TooManyAttemptsError.
C2_ReadmittedAfterCooldown ==
    (last.op = "authenticate_user" /\ streak[last.email].at = last.current_time)
    => LET n == streak[last.email].n
       IN  /\ n <= 5 => last.outcome = IF last.correct THEN "user"
                                       ELSE "InvalidCredentialsError"
           /\ n <= 5 /\ last.correct =>
                  /\ last.user = UserByEmail(last.email)
                  /\ last.user # {}
           /\ n = 6 => last.outcome = "TooManyAttemptsError"

\* C2 happens: five attempts at one time, then five admitted calls more than
\* 5 minutes later, and the sixth call at that time is rejected.
C2_Witness ==
    /\ last.op = "authenticate_user"
    /\ streak[last.email].at = last.current_time
    /\ streak[last.email].five
    /\ streak[last.email].n = 6
    /\ last.outcome = "TooManyAttemptsError"

\* C3 (as stated): while five logins of the last 15 minutes are stored for the
\* email, a login for it is answered 429 "Too many login attempts ..."; below
\* that, a wrong-password login is answered 401; and with no attempt of the
\* last 15 minutes stored, a login with the correct password is answered 200.
C3_Claim ==
    last.op = "login_user"
    => /\ last.recent >= 5 =>
              /\ last.status = 429
              /\ last.detail = "Too many login attempts. Please try again later."
       /\ (last.recent < 5 /\ ~last.correct) => last.status = 401
       /\ (last.recent = 0 /\ last.correct) => last.status = 200

\* C4 (as stated): a login for an email that is not locked out is answered
\* 401 "Incorrect email or password" when the email is unknown or the password
\* wrong, and 200 with a bearer token whose sub is the user's email when the
\* password is the registered one.
C4_Claim ==
    (last.op = "login_user" /\ last.recent < 5)
    => IF last.correct
       THEN /\ last.status = 200
            /\ last.token_type = "bearer"
            /\ last.access_token.wellformed
            /\ last.access_token.sig = SECRET_KEY
            /\ last.access_token.payload.sub = {last.email}
       ELSE /\ last.status = 401
            /\ last.detail = "Incorrect email or password"

C6_CurrentUser ==
    last.op = "get_current_user"
    => LET tok     == last.token
           signed  == tok.wellformed /\ tok.sig = "your-secret-key"
           expired == \E exp \in tok.payload.exp : exp < last.at
           owners  == {u \in users : tok.payload.sub = {u.email}}
       IN  /\ last.user # {} =>
                  /\ signed /\ ~expired /\ owners # {}
                  /\ last.status = 200
                  /\ last.user = {[id |-> u.id, email |-> u.email, name |-> u.name] :
                                   u \in owners}
           /\ (signed /\ ~expired /\ owners # {}) => last.user # {}
           /\ (signed /\ expired) =>
                  (last.status = 401 /\ last.detail = "Token has expired")
           /\ (~signed \/ (~expired /\ owners = {})) =>
                  (last.status = 401 /\ last.detail = "Could not validate credentials")

\* C6 happens: the signed token of a stored user is refused once its exp is
\* past.
C6_Witness ==
    /\ last.op = "get_current_user"
    /\ last.token.wellformed /\ last.token.sig = SECRET_KEY
    /\ \E u \in users : last.token.payload.sub = {u.email}
    /\ \E exp \in last.token.payload.exp : exp < last.at
    /\ last.detail = "Token has expired"

\* C7 (as stated): no two stored users have emails equal up to letter case,
\* and create_user raises DuplicateEmailError("Email already exists") and
\* stores nothing whenever a stored email equals the new one up to letter case.
C7_Claim ==
    /\ \A u, v \in users : Lower(u.email) = Lower(v.email) => u = v
    /\ (last.op = "create_user" /\ last.clash) =>
           /\ last.outcome = "DuplicateEmailError"
           /\ last.message = "Email already exists"

\* C8: delete(id) of a stored, not deleted instance returns it with
\* is_deleted = True and deleted_at set; afterwards get(id) is None, list()
\* does not hold it, list_all() holds it marked deleted, and every other
\* instance is as before.
C8_SoftDelete ==
    [][\A x \in items :
         (/\ last'.op \in {"delete", "service_delete"}
          /\ last'.id = x.id
          /\ ~x.is_deleted)
         => \E y \in last'.result :
              /\ last'.result = {y}
              /\ y.id = x.id /\ y.name = x.name
              /\ y.is_deleted = TRUE
              /\ y.deleted_at # {}
              /\ soft_get(items', x.id) = {}
              /\ \A i \in DOMAIN soft_list(items') : soft_list(items')[i].id # x.id
              /\ y \in Range(list_all(items'))
              /\ items' \ {y} = items \ {x}]_vars

\* C8 happens: one of two stored instances has been soft-deleted.
C8_Witness ==
    /\ last.op = "delete"
    /\ \E y \in last.result : y \in items /\ y.is_deleted /\ y.deleted_at # {}
    /\ \E z \in items : z.id # last.id

\* C9: restore(id) of a soft-deleted instance returns it with is_deleted =
\* False and deleted_at = None and otherwise as it was before its delete,
\* after which get(id) and list() return it; restore of an id that is missing
\* or not soft-deleted returns None and changes nothing.
C9_Restore ==
    [][last'.op = "restore" =>
         IF \E x \in items : x.id = last'.id /\ x.is_deleted
         THEN \E x \in items :
                LET y == [id |-> x.id, name |-> x.name, is_deleted |-> FALSE,
                          deleted_at |-> {}]
                IN  /\ x.id = last'.id
                    /\ last'.result = {y}
                    /\ items' = (items \ {x}) \cup {y}
                    /\ soft_get(items', x.id) = {y}
                    /\ y \in Range(soft_list(items'))
         ELSE /\ last'.result = {}
              /\ items' = items]_vars

\* C9 happens: a soft-deleted instance has been restored.
C9_Witness ==
    /\ last.op = "restore"
    /\ \E y \in last.result : y \in items /\ ~y.is_deleted /\ y.deleted_at = {}

C11_Claim ==
    [][last'.op = "hard_delete" =>
         /\ \A i \in DOMAIN list_all(items') : list_all(items')[i].id # last'.id
         /\ (last'.result = {}) => ~\E x \in items : x.id = last'.id]_vars

\* C12: list(skip, limit) answers with total = the number of stored instances
\* that are not soft-deleted, items = the instances at the positions
\* skip .. skip+limit-1 of the repository's list in its order, so
\* min(limit, max(0, total - skip)) of them, page = skip div limit + 1 and
\* size = limit.
C12_Pagination ==
    last.op = "service_list"
    => LET r == last.response
       IN  /\ r.total = Cardinality({x \in items : ~x.is_deleted})
           /\ Len(r.items) = Min(last.limit, Max(0, r.total - last.skip))
           /\ \A i \in 1..Len(r.items) : r.items[i] = soft_list(items)[last.skip + i]
           /\ r.page = (last.skip \div last.limit) + 1
           /\ r.size = last.limit

\* C12 happens: of two listed instances, with a soft-deleted one beside
\* them or not, the page of size 1 after the first holds the second alone.
C12_Witness ==
    /\ last.op = "service_list"
    /\ last.skip = 1 /\ last.limit = 1
    /\ last.response.total = 2
    /\ Len(last.response.items) = 1
    /\ last.response.items[1].id = 2
    /\ last.response.page = 2

C14_Claim ==
    [][\A x \in items :
         (last'.op = "service_update" /\ last'.id = x.id /\ ~x.is_deleted)
         => LET y == [x EXCEPT !.name = IF last'.obj_in = {} THEN x.name
                                        ELSE CHOOSE n \in last'.obj_in : TRUE]
            IN  /\ last'.status = 200
                /\ last'.result = {y}
                /\ items' = (items \ {x}) \cup {y}]_vars

\* C15: update_project and delete_project, and the PUT and DELETE endpoints
\* over them, called for a project by a user who is not its founder raise
\* HTTPException 403 "Not authorized ..." without a call of the repository's
\* update or delete, and the table is left as it was; for an id no project
\* has they raise 404.
C15_OnlyFounderChanges ==
    [][last'.op \in {"update_project", "delete_project", "put_project",
                     "delete_project_endpoint"}
       => /\ \A q \in projects :
               (q.id = last'.args.project_id
                /\ q.founder_id # last'.args.current_user_id)
               => /\ last'.raised = "HTTPException"
                  /\ last'.status = 403
                  /\ last'.detail \in {"Not authorized to update this project",
                                       "Not authorized to delete this project"}
                  /\ last'.calls = {}
                  /\ projects' = projects
          /\ (~\E q \in projects : q.id = last'.args.project_id)
               => /\ last'.raised = "HTTPException"
                  /\ last'.status = 404
                  /\ projects' = projects]_vars

\* C15 happens: DELETE of a stored project by a user who is not its founder
\* has been answered 403 and the project is still stored.
C15_Witness ==
    /\ last.op = "delete_project_endpoint"
    /\ last.status = 403
    /\ \E q \in projects : /\ q.id = last.args.project_id
                           /\ q.founder_id # last.args.current_user_id

\* C16 (as stated): creating a project whose title its founder already uses
\* is rejected with status 400 and a detail containing "already exists", by
\* ProjectService.create_project and by POST /projects alike, and no project
\* is created.
C16_Claim ==
    [][(/\ last'.op \in {"create_project", "post_projects"}
        /\ \E q \in projects : /\ {q.title} = {strip(t) : t \in last'.args.title}
                               /\ q.founder_id = last'.args.current_user_id)
       => (/\ last'.raised = "HTTPException"
           /\ last'.status = 400
           /\ last'.detail = "A project with this title already exists for this user"
           /\ projects' = projects)]_vars

\* C17: execute ends by returning the handler's result or by raising an
\* HTTPException: 403 for PermissionDenied, 404 for PageNotFound, 400 with the
\* error's message for ValueError, 500 for any other exception; a call
\* without current_user is answered 400 with the missing-user message and the
\* handler is not invoked.
C17_ExecuteOutcome ==
    last.op = "execute"
    => LET invoked == Positions(last.trace, "func") # {}
       IN  /\ last.raised \in {"", "HTTPException"}
           /\ last.raised = "" => (invoked /\ last.handler = "return"
                                   /\ last.returned = {HandlerResult})
           /\ last.kwargs.current_user = {} =>
                  /\ last.raised = "HTTPException"
                  /\ last.status = 400
                  /\ last.detail = NoUserMessage
                  /\ ~invoked
           /\ invoked =>
                  /\ last.handler = "return" => last.raised = ""
                  /\ last.handler = "PermissionDenied" =>
                         (last.raised = "HTTPException" /\ last.status = 403)
                  /\ last.handler = "PageNotFound" =>
                         (last.raised = "HTTPException" /\ last.status = 404)
                  /\ last.handler = "ValueError" =>
                         (last.raised = "HTTPException" /\ last.status = 400
                          /\ last.detail = HandlerMessage)
                  /\ last.handler \in {"HTTPException", "RuntimeError"} =>
                         (last.raised = "HTTPException" /\ last.status = 500)
           /\ (last.kwargs.current_user # {} /\ ~invoked) =>
                  (last.raised = "HTTPException" /\ last.status = 500)

\* C17 happens: a call without current_user has been answered 400 for an
\* action whose handler would have returned.
C17_Witness ==
    /\ last.op = "execute"
    /\ last.kwargs.current_user = {}
    /\ last.handler = "return"
    /\ last.status = 400
    /\ last.trace = <<>>

\* C18 (as stated): when a permission of the action refuses the current
\* user, execute raises HTTPException with status 403 and the handler is not
\* invoked; the handler is invoked only after every permission has granted.
C18_Claim ==
    (last.op = "execute" /\ last.kwargs.current_user # {})
    => LET perms == last.action.permissions
           refused ==
               \/ \E i \in DOMAIN perms :
                      ~has_permission(perms[i], last.kwargs.current_user)
               \/ /\ last.action.detail /\ last.kwargs.obj # {}
                  /\ \E i \in DOMAIN perms :
                         ~has_object_permission(perms[i], last.kwargs.current_user,
                                                last.kwargs.obj)
           invoked == Positions(last.trace, "func") # {}
       IN  /\ refused => (/\ last.raised = "HTTPException"
                          /\ last.status = 403
                          /\ ~invoked)
           /\ invoked =>
                  /\ ~refused
                  /\ \A i \in DOMAIN perms :
                       \E k \in Positions(last.trace, "has_permission") :
                           /\ last.trace[k][2] = perms[i]
                           /\ \A f \in Positions(last.trace, "func") : k < f

\* C19: for a detail action called with an object, the handler is invoked
\* only after has_object_permission of every permission class has been asked
\* for (current_user, obj), each after the user-level checks, and has granted;
\* under IsAllowOwner a user who is not the object's owner is refused: execute
\* raises and the handler is not invoked.  A non-detail action asks no
\* has_object_permission.
C19_ObjectPermissions ==
    (last.op = "execute" /\ last.kwargs.current_user # {})
    => LET perms == last.action.permissions
           user == last.kwargs.current_user
           obj == last.kwargs.obj
           invoked == Positions(last.trace, "func") # {}
           user_calls == Positions(last.trace, "has_permission")
           object_calls == Positions(last.trace, "has_object_permission")
       IN  /\ (last.action.detail /\ obj # {} /\ invoked) =>
                  /\ \A i \in DOMAIN perms :
                       /\ has_object_permission(perms[i], user, obj)
                       /\ \E k \in object_calls :
                            /\ last.trace[k][2] = perms[i]
                            /\ \A u \in user_calls : u < k
                            /\ \A f \in Positions(last.trace, "func") : k < f
           /\ (/\ last.action.detail /\ obj # {}
               /\ \E i \in DOMAIN perms : perms[i] = "IsAllowOwner"
               /\ \A o \in obj : o.owner # user) =>
                  (~invoked /\ last.raised = "HTTPException" /\ last.returned = {})
           /\ ~last.action.detail => object_calls = {}

\* C19 happens: a detail action with IsAuthenticated and IsAllowOwner has
\* passed its user-level checks and refused a user who does not own the
\* object.
C19_Witness ==
    /\ last.op = "execute"
    /\ last.action.detail
    /\ last.action.permissions = <<"IsAuthenticated", "IsAllowOwner">>
    /\ last.kwargs.current_user = {"u2"}
    /\ last.kwargs.obj = {[owner |-> {"u1"}]}
    /\ last.handler = "return"
    /\ last.raised = "HTTPException"
    /\ Positions(last.trace, "has_object_permission") # {}
    /\ Positions(last.trace, "func") = {}

\* C20: the cache of get_repository holds exactly one instance for each
\* repository class requested so far and none else, the instances of
\* different classes are different objects, and a call for a class that is
\* cached returns the cached instance and leaves the cache as it is, so that
\* two calls with one class return the identical instance.
C20_OneInstancePerClass ==
    /\ [](/\ {i.cls : i \in repository_instances} = requested
          /\ Cardinality(repository_instances) = Cardinality(requested)
          /\ \A i, j \in repository_instances : i.id = j.id => i = j)
    /\ [][/\ repository_instances \subseteq repository_instances'
          /\ last'.op = "get_repository" =>
                /\ Cardinality(last'.result) = 1
                /\ last'.result \subseteq repository_instances'
                /\ \A r \in last'.result : r.cls = last'.cls
                /\ \A i \in repository_instances :
                       i.cls = last'.cls => last'.result = {i}]_vars

\* C20 happens: a class is requested again, with another session, after a
\* second class was requested, and the first instance is returned; two
\* instances are cached.
C20_Witness ==
    /\ last.op = "get_repository"
    /\ \E r \in last.result : r.db # last.db /\ r.id = 1
    /\ Cardinality(repository_instances) = 2
    /\ Cardinality(requested) = 2

\* C21 (as stated): constructing an endpoint class on a router adds exactly
\* five routes to that router, POST and GET on the prefix and GET, PUT and
\* DELETE on prefix/{id}, and none to another router.
C21_Claim ==
    [][last'.op = "construct_endpoint" =>
         LET r == last'.router
             prefix == prefix_of(last'.cls)
             added == {routes'[r][i] : i \in (Len(routes[r]) + 1)..Len(routes'[r])}
         IN  /\ Len(routes'[r]) = Len(routes[r]) + 5
             /\ {<<a.methods, a.path>> : a \in added} =
                    {<<"POST", <<prefix>> >>, <<"GET", <<prefix>> >>,
                     <<"GET", <<prefix, "/{id}">> >>, <<"PUT", <<prefix, "/{id}">> >>,
                     <<"DELETE", <<prefix, "/{id}">> >>}
             /\ \A o \in Routers \ {r} : routes'[o] = routes[o]]_vars

\* C22 (as stated): a GET, PUT or DELETE through BaseCrudEndpoint for an id
\* that no stored, not soft-deleted item has is answered 404, and a DELETE
\* answered 204 leaves no item that a GET of the id would find.
C22_Claim ==
    [][last'.op = "crud_request" =>
         /\ (~\E x \in items : x.id = last'.id /\ ~x.is_deleted) => last'.status = 404
         /\ (last'.handler = "delete" /\ last'.status = 204) =>
                soft_get(items', last'.id) = {}]_vars

\* C23: with check_login_attempts called at non-decreasing times, directly
\* after a call at time t every row of the email has its attempt_time in
\* (t - 5, t], there are at most 5 of them, no row is left at exactly t - 5,
\* and the call counted only the rows later than t - 5.
C23_WindowAfterCall ==
    /\ [](last.op = "check_login_attempts" =>
            LET t == last.current_time
                e == last.email
            IN  /\ \A u \in AllTimes :
                       attempts[e][u] > 0 => (u > t - cooldown_period /\ u <= t)
                /\ RowCount(attempts, e) <= max_attempts
                /\ (t - cooldown_period \in AllTimes =>
                       attempts[e][t - cooldown_period] = 0))
    /\ [][last'.op = "check_login_attempts" =>
            /\ last'.counted =
                   SumOver(attempts[last'.email],
                           {u \in AllTimes : u > last'.current_time - cooldown_period})
            /\ last'.result = (last'.counted < max_attempts)]_vars

\* a call at t = 5 met a row of attempt time 0 = t - 5 and was admitted
\* although four later rows were stored
C23_Witness ==
    /\ last.op = "check_login_attempts"
    /\ last.current_time = cooldown_period
    /\ last.result
    /\ last.counted = max_attempts - 1
    /\ RowCount(attempts, last.email) = max_attempts

\* C24 (as stated): under any interleaving of concurrent check_login_attempts
\* calls for one email at one current_time, at most 5 rows of the email with
\* an attempt_time inside the cooldown window exist.
C24_Claim ==
    RecentRows(attempts, RaceEmail, now) <= max_attempts

\* C25: an authenticate_user call that is not rejected with
\* TooManyAttemptsError adds exactly one row (email, current_time), whether
\* it then returns the user or raises InvalidCredentialsError, and deletes
\* no unexpired row; a rejected call adds no row; rows of other emails are
\* left alone.
C25_OneRowPerAdmittedCall ==
    [][last'.op = "authenticate_user" =>
         LET e == last'.email
             t == last'.current_time
         IN  /\ last'.outcome \in {"user", "InvalidCredentialsError"} =>
                    /\ attempts'[e][t] = attempts[e][t] + 1
                    /\ RowCount(attempts', e) =
                           RowCount(PurgeExpired(attempts, e, t), e) + 1
             /\ last'.outcome = "TooManyAttemptsError" =>
                    \A u \in AllTimes : attempts'[e][u] <= attempts[e][u]
             /\ \A u \in AllTimes :
                    (u > t - cooldown_period /\ u # t) => attempts'[e][u] = attempts[e][u]
             /\ \A o \in LoginEmails \ {e} : attempts'[o] = attempts[o]]_vars

\* a successful authentication that left three unexpired rows and its own
C25_Witness ==
    /\ last.op = "authenticate_user"
    /\ last.outcome = "user"
    /\ RowCount(attempts, last.email) = 4
    /\ attempts[last.email][last.current_time] = 1

\* the three operations of the limiter
LimiterOps == {"check_login_attempts", "check_brute_force", "clear_login_attempts"}

\* C26: check_login_attempts, check_brute_force and clear_login_attempts for
\* one email leave every row of every other email as it was, count no row
\* of another email, and leave the admission of every other email unchanged.
C26_PerEmail ==
    [][last'.op \in LimiterOps =>
         LET e == last'.email
         IN  \A o \in LoginEmails \ {e} :
                /\ attempts'[o] = attempts[o]
                /\ Rejects(attempts', o, now) = Rejects(attempts, o, now)
                /\ brute_force_raises(attempts', o) = brute_force_raises(attempts, o)
                /\ last'.op = "check_login_attempts" =>
                       /\ last'.counted = attempt_count(DeleteAllOf(attempts, o), e, now)
                       /\ attempts'[e] = check_login_attempts(DeleteAllOf(attempts, o), e, now)[e]
                /\ last'.op = "check_brute_force" =>
                       last'.counted = brute_force_count(DeleteAllOf(attempts, o), e)]_vars

\* email a is refused by check_brute_force while email b, with fewer rows,
\* is still admitted
C26_Witness ==
    /\ last.op = "check_brute_force"
    /\ last.email = <<"a">>
    /\ ~last.result
    /\ RowCount(attempts, <<"b">>) \in 1..(max_attempts - 1)
    /\ ~brute_force_raises(attempts, <<"b">>)

\* the stored rows whose deleted_at is None
NeverDeleted(tbl) == {x \in tbl : x.deleted_at = {}}

C28_UniqueUnderRace ==
    /\ [](/\ \A q1, q2 \in projects :
                (q1.title = q2.title /\ q1.founder_id = q2.founder_id) => q1 = q2
          /\ \A p1, p2 \in Procs :
                (/\ p1 # p2
                 /\ procs[p1].pc = "done" /\ procs[p2].pc = "done"
                 /\ procs[p1].key = procs[p2].key /\ procs[p1].arg = procs[p2].arg)
                => ~(procs[p1].out = "Project" /\ procs[p2].out = "Project")
          /\ \A p \in Procs :
                procs[p].pc = "done" =>
                    procs[p].out \in {"Project", "HTTPException 400", "HTTPException 500"})
    /\ [][last'.op = "create_commit" =>
            LET p == last'.proc
            IN  /\ procs'[p].out # "Project" => projects' = projects
                /\ procs'[p].out = "HTTPException 500" => last'.rolled_back
                /\ procs'[p].out = "Project" =>
                       \E q \in projects' \ projects :
                           /\ q.title = procs[p].key /\ q.founder_id = procs[p].arg
                           /\ projects' = projects \cup {q}]_vars

\* two calls with the same title and founder both passed the duplicate check;
\* one returned the project, the other ended with HTTPException 500
C28_Witness ==
    /\ procs[1].pc = "done" /\ procs[2].pc = "done"
    /\ procs[1].key = procs[2].key /\ procs[1].arg = procs[2].arg
    /\ procs[1].seen = 0 /\ procs[2].seen = 0
    /\ procs[1].out = "Project"
    /\ procs[2].out = "HTTPException 500"
    /\ Cardinality(projects) = 1

\* C29 (as stated): the repository get_repository(cls, db) returns operates
\* on the session db of that call, and on no session that get_async_db has
\* closed at the end of an earlier request.
C29_Claim ==
    last.op = "get_repository" =>
        \A r \in last.result : r.db = last.db /\ r.db \notin closed

\* C30 (as stated): EndpointAction.get_current_user returns a user only if
\* a User row with the token's email is stored at the time of the call, and
\* the id, email and name returned are those of that row.
C30_Claim ==
    (last.op = "endpoint_get_current_user" /\ last.status = 200) =>
        /\ last.user # {}
        /\ last.user =
               {UserResponse(u) : u \in UNION {UserByEmail(e) : e \in last.token.payload.sub}}

====
